---- MODULE Spec2Model ----
(***************************************************************************)
(* Onboarding-question store of the AARP admin tool.                       *)
(*                                                                         *)
(* The in-memory store (an array `questions` and a counter `nextId`) is     *)
(* reached through one of three entry points:                              *)
(*   - "handlers":   the exported handle* handlers of                      *)
(*                   src/unnamed/part_000:10-58, which call the question   *)
(*                   service (src/server/questions.controller.ts:72-153);  *)
(*   - "app":        the Express application of                            *)
(*                   src/unnamed/part_000:61-84, whose route table         *)
(*                   dispatches HTTP requests to those handlers;           *)
(*   - "controller": the request handlers of                               *)
(*                   src/server/questions.controller.ts:5-67 over the      *)
(*                   store of src/server/db.ts.                            *)
(* A behaviour runs one of them (variable entry).                          *)
(***************************************************************************)
EXTENDS Integers, Sequences, FiniteSets, TLC

VARIABLES
    entry,      \* which revision serves this behaviour
    questions,  \* let questions: Question[] = []
    nextId,     \* let nextId = 1
    req,        \* the request (or call) handled by the last step
    res,        \* the response (or return value) of the last step
    everIds,    \* history: every id getNextId() has handed to a stored question
    rawPayload,      \* client: the server payload last given to normalizeArray
    normalizedOnce,  \* client: normalizeArray(rawPayload)
    normalizedTwice, \* client: normalizeArray(normalizeArray(rawPayload))
    genderIn,     \* client: the value last given to normalizeGender
    genderOut,    \* client: normalizeGender(genderIn)
    loading,        \* ManageOnboarding: const [loading, setLoading]
    uiQuestions,    \* ManageOnboarding: const [questions, setQuestions]
    draggedId,      \* ManageOnboarding: const [draggedId, setDraggedId]
    dragOverId,     \* ManageOnboarding: const [dragOverId, setDragOverId]
    savingReorder,  \* ManageOnboarding: const [savingReorder, setSavingReorder]
    error,          \* ManageOnboarding: const [error, setError]
    successMessage, \* ManageOnboarding: const [successMessage, setSuccessMessage]
    inFlight,       \* the handleDrop calls suspended at an await, each with
                    \* its previousState and reorderedList
    commits,        \* how many reorder requests were sent so far
    deletingId,     \* ManageOnboarding: const [deletingId, setDeletingId]
    deletes,        \* how many delete requests were sent so far
    deletedIds,     \* history: the ids whose delete request succeeded
    event           \* the handler (or continuation) run by the last step

serverVars == <<entry, questions, nextId, req, res, everIds>>

normVars == <<rawPayload, normalizedOnce, normalizedTwice, genderIn, genderOut>>

clientVars ==
    <<loading, uiQuestions, draggedId, dragOverId, savingReorder, error,
      successMessage, inFlight, commits, deletingId, deletes, deletedIds, event>>

vars == <<serverVars, normVars, clientVars>>

----------------------------------------------------------------------------
(* Bounds *)

\* getNextId() is called at most MaxId times in a behaviour.
MaxId == 2

\* Reorder and delete requests the client sends in a behaviour.
MaxDrops == 2

\* Longest orderedIds sequence submitted to reorder.
MaxOrderedLen == 2

\* Most items in a payload given to the normalizer.
MaxItems == 2

----------------------------------------------------------------------------
(* JavaScript values *)

\* Number(x) of a string that is not numeric; NaN === y is false for every y.
NaN == -1

\* a === b on numbers
StrictEq(a, b) == a # NaN /\ b # NaN /\ a = b

\* Decimal spellings of the ids that occur in request paths.
DigitStr == <<"1", "2", "3", "4", "5", "6">>

\* Number(req.params.id)
NumberOf(s) ==
    IF \E n \in 1..Len(DigitStr) : DigitStr[n] = s
    THEN CHOOSE n \in 1..Len(DigitStr) : DigitStr[n] = s
    ELSE NaN

Range(s) == {s[i] : i \in 1..Len(s)}

\* Math.max(...qs.map(q => q.order)), 0 for the empty array (caller's ternary)
MaxOrderOf(qs) ==
    IF Len(qs) = 0 THEN 0
    ELSE CHOOSE m \in {qs[i].order : i \in 1..Len(qs)} :
            \A i \in 1..Len(qs) : qs[i].order <= m

\* qs.findIndex(q => q.id === id), 1-based; 0 stands for -1
FindIndex(qs, id) ==
    IF \E i \in 1..Len(qs) : StrictEq(qs[i].id, id)
    THEN CHOOSE i \in 1..Len(qs) :
            /\ StrictEq(qs[i].id, id)
            /\ \A j \in 1..(i - 1) : ~StrictEq(qs[j].id, id)
    ELSE 0

\* qs.splice(idx, 1)
Splice1(qs, idx) ==
    [i \in 1..(Len(qs) - 1) |-> IF i < idx THEN qs[i] ELSE qs[i + 1]]

\* one step of the stable sort: q goes behind every element whose order is
\* not greater than its own
InsertByOrder(q, sorted) ==
    LET k == Cardinality({i \in 1..Len(sorted) : sorted[i].order <= q.order})
    IN  SubSeq(sorted, 1, k) \o <<q>> \o SubSeq(sorted, k + 1, Len(sorted))

\* qs.sort((a, b) => a.order - b.order); Array.prototype.sort is stable
RECURSIVE SortByOrder(_)
SortByOrder(qs) ==
    IF Len(qs) = 0 THEN <<>>
    ELSE InsertByOrder(qs[Len(qs)], SortByOrder(SubSeq(qs, 1, Len(qs) - 1)))

----------------------------------------------------------------------------
(* Requests and responses *)

\* A JSON request body: `has` lists the keys the body carries, the other
\* fields hold their values (a fixed filler for a key that is not carried).
NoBody ==
    [has |-> {}, text |-> "", category |-> "", applicableFor |-> <<>>,
     id |-> 0, order |-> 0, orderedIds |-> <<>>, questions |-> <<>>]

\* x !== undefined for the key k of body b
Supplied(b, k) == k \in b.has

\* !b.text, !b.category: the key is missing or holds the empty string
Falsy(b, k) ==
    \/ ~Supplied(b, k)
    \/ k = "text" /\ b.text = ""
    \/ k = "category" /\ b.category = ""

NoReq == [op |-> "none", path |-> <<>>, param |-> "", body |-> NoBody]

Reply(status, kind, body, message) ==
    [status |-> status, kind |-> kind, body |-> body, message |-> message]

NoRes == Reply(0, "none", <<>>, "")

----------------------------------------------------------------------------
(* The question service: src/server/questions.controller.ts:72-153 *)

\* const getNextId = () => nextId++
getNextId(nid) == [value |-> nid, nextId |-> nid + 1]

\* faulty variant: the comparator is b.order - a.order
getAllQuestions_descending(qs) ==
    LET up == SortByOrder(qs)
    IN  [i \in 1..Len(up) |-> up[Len(up) + 1 - i]]

getAllQuestions(qs) == SortByOrder(qs)

\* faulty variant: the new order is the count of questions plus one
createQuestion_orderByLength(qs, nid, data) ==
    LET fresh == getNextId(nid)
        newQ  == [id            |-> fresh.value,
                  text          |-> data.text,
                  category      |-> data.category,
                  applicableFor |-> IF Supplied(data, "applicableFor")
                                    THEN data.applicableFor ELSE <<>>,
                  order         |-> Len(qs) + 1]
    IN  [questions |-> Append(qs, newQ), nextId |-> fresh.nextId, ret |-> newQ]

\* faulty variant: the new id is the count of questions plus one
createQuestion_idByLength(qs, nid, data) ==
    LET fresh == getNextId(nid)
        newQ  == [id            |-> Len(qs) + 1,
                  text          |-> data.text,
                  category      |-> data.category,
                  applicableFor |-> IF Supplied(data, "applicableFor")
                                    THEN data.applicableFor ELSE <<>>,
                  order         |-> MaxOrderOf(qs) + 1]
    IN  [questions |-> Append(qs, newQ), nextId |-> fresh.nextId, ret |-> newQ]

createQuestion(qs, nid, data) ==
    LET maxOrder == MaxOrderOf(qs)
        fresh    == getNextId(nid)
        newQ     == [id            |-> fresh.value,
                     text          |-> data.text,
                     category      |-> data.category,
                     applicableFor |-> IF Supplied(data, "applicableFor")
                                       THEN data.applicableFor ELSE <<>>,
                     order         |-> maxOrder + 1]
    IN  [questions |-> Append(qs, newQ), nextId |-> fresh.nextId, ret |-> newQ]

\* faulty variant: the whole body is spread into the record
MergeFields_spreadBody(q, data) ==
    [q EXCEPT
        !.id            = IF Supplied(data, "id") THEN data.id ELSE @,
        !.order         = IF Supplied(data, "order") THEN data.order ELSE @,
        !.text          = IF Supplied(data, "text") THEN data.text ELSE @,
        !.category      = IF Supplied(data, "category") THEN data.category ELSE @,
        !.applicableFor = IF Supplied(data, "applicableFor")
                          THEN data.applicableFor ELSE @]

\* the three conditional spreads of updateQuestion
MergeFields(q, data) ==
    [q EXCEPT
        !.text          = IF Supplied(data, "text") THEN data.text ELSE @,
        !.category      = IF Supplied(data, "category") THEN data.category ELSE @,
        !.applicableFor = IF Supplied(data, "applicableFor")
                          THEN data.applicableFor ELSE @]

\* faulty variant: a missed findIndex is clamped to the first element
updateQuestion_clampIndex(qs, id, data) ==
    LET idx == FindIndex(qs, id)
    IN  IF Len(qs) = 0
        THEN [questions |-> qs, found |-> FALSE, ret |-> <<>>]
        ELSE LET at     == IF idx = 0 THEN 1 ELSE idx
                 merged == MergeFields(qs[at], data)
             IN  [questions |-> [qs EXCEPT ![at] = merged],
                  found     |-> TRUE,
                  ret       |-> <<merged>>]

\* found = FALSE stands for the null return
updateQuestion(qs, id, data) ==
    LET idx == FindIndex(qs, id)
    IN  IF idx = 0
        THEN [questions |-> qs, found |-> FALSE, ret |-> <<>>]
        ELSE LET merged == MergeFields(qs[idx], data)
             IN  [questions |-> [qs EXCEPT ![idx] = merged],
                  found     |-> TRUE,
                  ret       |-> <<merged>>]

\* faulty variant: no early return, so splice(-1, 1) drops the last element
deleteQuestion_noGuard(qs, id) ==
    LET idx == FindIndex(qs, id)
    IN  IF Len(qs) = 0
        THEN [questions |-> qs, ok |-> TRUE]
        ELSE [questions |-> Splice1(qs, IF idx = 0 THEN Len(qs) ELSE idx), ok |-> TRUE]

\* faulty variant: the remaining questions are renumbered 1..N
deleteQuestion_renumber(qs, id) ==
    LET idx == FindIndex(qs, id)
    IN  IF idx = 0
        THEN [questions |-> qs, ok |-> FALSE]
        ELSE LET rest == Splice1(qs, idx)
             IN  [questions |-> [i \in 1..Len(rest) |-> [rest[i] EXCEPT !.order = i]],
                  ok        |-> TRUE]

deleteQuestion(qs, id) ==
    LET idx == FindIndex(qs, id)
    IN  IF idx = 0
        THEN [questions |-> qs, ok |-> FALSE]
        ELSE [questions |-> Splice1(qs, idx), ok |-> TRUE]

\* faulty variant: the first occurrence of an id wins
OrderMapGet_firstWins(orderedIds, id) ==
    LET at == {i \in 1..Len(orderedIds) : orderedIds[i] = id}
    IN  IF at = {} THEN 0
        ELSE CHOOSE i \in at : \A j \in at : i <= j

\* orderMap.get(id) after orderedIds.forEach((id, index) => orderMap.set(id,
\* index + 1)): a later set overwrites an earlier one; 0 stands for undefined
OrderMapGet(orderedIds, id) ==
    LET at == {i \in 1..Len(orderedIds) : orderedIds[i] = id}
    IN  IF at = {} THEN 0
        ELSE CHOOSE i \in at : \A j \in at : j <= i

\* faulty variant: the questions that orderedIds does not list are dropped
reorderQuestions_listedOnly(qs, orderedIds) ==
    LET Listed(q) == OrderMapGet(orderedIds, q.id) # 0
        kept      == SelectSeq(qs, Listed)
    IN  SortByOrder([i \in 1..Len(kept) |->
                        [kept[i] EXCEPT !.order = OrderMapGet(orderedIds, kept[i].id)]])

\* faulty variant: the renumbered array is not sorted
reorderQuestions_noSort(qs, orderedIds) ==
    [i \in 1..Len(qs) |->
        LET o == OrderMapGet(orderedIds, qs[i].id)
        IN  [qs[i] EXCEPT !.order = IF o = 0 THEN @ ELSE o]]

reorderQuestions(qs, orderedIds) ==
    LET mapped == [i \in 1..Len(qs) |->
                    LET o == OrderMapGet(orderedIds, qs[i].id)
                    IN  [qs[i] EXCEPT !.order = IF o = 0 THEN @ ELSE o]]
    IN  SortByOrder(mapped)

----------------------------------------------------------------------------
(* The Express application: src/unnamed/part_000 *)

\* what a handler leaves behind: the store and the response it sent
Outcome(qs, nid, r) == [questions |-> qs, nextId |-> nid, res |-> r]

handleGetQuestions(qs, nid, param, body) ==
    Outcome(qs, nid, Reply(200, "array", getAllQuestions(qs), ""))

\* faulty variant: only text is required
handleCreateQuestion_textOnly(qs, nid, param, body) ==
    IF Falsy(body, "text")
    THEN Outcome(qs, nid, Reply(400, "message", <<>>, "text and category required"))
    ELSE LET c == createQuestion(qs, nid, body)
         IN  Outcome(c.questions, c.nextId, Reply(201, "object", <<c.ret>>, ""))

handleCreateQuestion(qs, nid, param, body) ==
    IF Falsy(body, "text") \/ Falsy(body, "category")
    THEN Outcome(qs, nid, Reply(400, "message", <<>>, "text and category required"))
    ELSE LET c == createQuestion(qs, nid, body)
         IN  Outcome(c.questions, c.nextId, Reply(201, "object", <<c.ret>>, ""))

handleUpdateQuestion(qs, nid, param, body) ==
    LET id == NumberOf(param)
        u  == updateQuestion(qs, id, body)
    IN  IF ~u.found
        THEN Outcome(qs, nid, Reply(404, "message", <<>>, "Not found"))
        ELSE Outcome(u.questions, nid, Reply(200, "object", u.ret, ""))

handleDeleteQuestion(qs, nid, param, body) ==
    LET id == NumberOf(param)
        d  == deleteQuestion(qs, id)
    IN  IF ~d.ok
        THEN Outcome(qs, nid, Reply(404, "message", <<>>, "Not found"))
        ELSE Outcome(d.questions, nid, Reply(204, "empty", <<>>, ""))

\* Array.isArray(orderedIds): a body that carries orderedIds carries an array
handleReorderQuestions(qs, nid, param, body) ==
    IF ~Supplied(body, "orderedIds")
    THEN Outcome(qs, nid, Reply(400, "message", <<>>, "orderedIds must be an array"))
    ELSE LET updatedList == reorderQuestions(qs, body.orderedIds)
         IN  Outcome(updatedList, nid, Reply(200, "array", updatedList, ""))

\* app.get / app.post / app.put / app.delete, in registration order
Routes ==
    << [method |-> "GET",    pattern |-> <<"api", "questions">>,            handler |-> "handleGetQuestions"],
       [method |-> "POST",   pattern |-> <<"api", "questions">>,            handler |-> "handleCreateQuestion"],
       [method |-> "PUT",    pattern |-> <<"api", "questions", ":id">>,     handler |-> "handleUpdateQuestion"],
       [method |-> "DELETE", pattern |-> <<"api", "questions", ":id">>,     handler |-> "handleDeleteQuestion"],
       [method |-> "PUT",    pattern |-> <<"api", "questions", "reorder">>, handler |-> "handleReorderQuestions"] >>

\* Express path matching: a ":name" segment matches any one segment
RouteMatches(route, method, path) ==
    /\ route.method = method
    /\ Len(route.pattern) = Len(path)
    /\ \A i \in 1..Len(path) :
          route.pattern[i] = ":id" \/ route.pattern[i] = path[i]

\* the first registered route that matches handles the request (no handler
\* calls next()); 0 when none matches
MatchRoute(method, path) ==
    LET hits == {i \in 1..Len(Routes) : RouteMatches(Routes[i], method, path)}
    IN  IF hits = {} THEN 0
        ELSE CHOOSE i \in hits : \A j \in hits : i <= j

\* req.params.id of the matched route
ParamOf(route, path) ==
    IF \E i \in 1..Len(route.pattern) : route.pattern[i] = ":id"
    THEN path[CHOOSE i \in 1..Len(route.pattern) : route.pattern[i] = ":id"]
    ELSE ""

Dispatch(qs, nid, method, path, body) ==
    LET r == MatchRoute(method, path)
    IN  IF r = 0
        THEN Outcome(qs, nid, Reply(404, "message", <<>>, "Cannot " \o method))
        ELSE LET h     == Routes[r].handler
                 param == ParamOf(Routes[r], path)
             IN  CASE h = "handleGetQuestions"     -> handleGetQuestions(qs, nid, param, body)
                   [] h = "handleCreateQuestion"   -> handleCreateQuestion(qs, nid, param, body)
                   [] h = "handleUpdateQuestion"   -> handleUpdateQuestion(qs, nid, param, body)
                   [] h = "handleDeleteQuestion"   -> handleDeleteQuestion(qs, nid, param, body)
                   [] h = "handleReorderQuestions" -> handleReorderQuestions(qs, nid, param, body)

----------------------------------------------------------------------------
(* The controller over db.ts: src/server/questions.controller.ts:5-67 *)

getQuestions(qs, nid, param, body) ==
    Outcome(qs, nid, Reply(200, "array", SortByOrder(qs), ""))

ctlCreateQuestion(qs, nid, param, body) ==
    IF Falsy(body, "text") \/ Falsy(body, "category")
    THEN Outcome(qs, nid, Reply(400, "message", <<>>, "text and category are required"))
    ELSE LET maxOrder    == MaxOrderOf(qs)
             fresh       == getNextId(nid)
             newQuestion == [id            |-> fresh.value,
                             text          |-> body.text,
                             category      |-> body.category,
                             applicableFor |-> IF Supplied(body, "applicableFor")
                                               THEN body.applicableFor ELSE <<>>,
                             order         |-> maxOrder + 1]
         IN  Outcome(Append(qs, newQuestion), fresh.nextId,
                     Reply(201, "object", <<newQuestion>>, ""))

ctlUpdateQuestion(qs, nid, param, body) ==
    LET id  == NumberOf(param)
        idx == FindIndex(qs, id)
    IN  IF idx = 0
        THEN Outcome(qs, nid, Reply(404, "message", <<>>, "Question not found"))
        ELSE LET merged == MergeFields(qs[idx], body)
             IN  Outcome([qs EXCEPT ![idx] = merged], nid,
                         Reply(200, "object", <<merged>>, ""))

ctlDeleteQuestion(qs, nid, param, body) ==
    LET id     == NumberOf(param)
        exists == \E i \in 1..Len(qs) : StrictEq(qs[i].id, id)
    IN  IF ~exists
        THEN Outcome(qs, nid, Reply(404, "message", <<>>, "Question not found"))
        ELSE Outcome(Splice1(qs, FindIndex(qs, id)), nid, Reply(204, "empty", <<>>, ""))

----------------------------------------------------------------------------
(* Client: JavaScript values of a server payload
   (src/src/pages/ManageOnboarding.tsx)

   A string is the sequence of its characters, each a one-character string.
   A value is a record: t is its type, n its number, s its characters, a its
   array elements.                                                          *)

Undefined == [t |-> "undefined", n |-> 0, s |-> <<>>, a |-> <<>>]

Null == [t |-> "null", n |-> 0, s |-> <<>>, a |-> <<>>]

Num(n) == [t |-> "number", n |-> n, s |-> <<>>, a |-> <<>>]

Str(s) == [t |-> "string", n |-> 0, s |-> s, a |-> <<>>]

Arr(a) == [t |-> "array", n |-> 0, s |-> <<>>, a |-> a]

\* x == null (null or undefined)
IsNullish(v) == v.t \in {"undefined", "null"}

\* a ?? b
Coalesce(a, b) == IF IsNullish(a) THEN b ELSE a

\* !v
IsFalsy(v) ==
    \/ IsNullish(v)
    \/ v.t = "number" /\ v.n = 0
    \/ v.t = "string" /\ v.s = <<>>

Digits == <<"0", "1", "2", "3", "4", "5", "6", "7", "8", "9">>

UpperCase == <<"A", "B", "C", "D", "E", "F", "G", "H", "I", "J", "K", "L", "M",
               "N", "O", "P", "Q", "R", "S", "T", "U", "V", "W", "X", "Y", "Z">>

LowerCase == <<"a", "b", "c", "d", "e", "f", "g", "h", "i", "j", "k", "l", "m",
               "n", "o", "p", "q", "r", "s", "t", "u", "v", "w", "x", "y", "z">>

\* the characters of the payloads, in code-unit order
Alphabet == <<" ", "\"", ",", "-">> \o Digits \o UpperCase \o <<"[", "]">> \o LowerCase

CharCode(c) == CHOOSE i \in 1..Len(Alphabet) : Alphabet[i] = c

IsDigit(c) == \E i \in 1..Len(Digits) : Digits[i] = c

DigitValue(c) == (CHOOSE i \in 1..Len(Digits) : Digits[i] = c) - 1

\* String(n) for a non-negative integer
RECURSIVE NumToStr(_)
NumToStr(n) ==
    IF n < 10 THEN <<Digits[n + 1]>>
    ELSE NumToStr(n \div 10) \o <<Digits[(n % 10) + 1]>>

\* s.trim()
RECURSIVE TrimLeft(_)
TrimLeft(s) == IF Len(s) > 0 /\ s[1] = " " THEN TrimLeft(Tail(s)) ELSE s

RECURSIVE TrimRight(_)
TrimRight(s) ==
    IF Len(s) > 0 /\ s[Len(s)] = " " THEN TrimRight(SubSeq(s, 1, Len(s) - 1)) ELSE s

Trim(s) == TrimRight(TrimLeft(s))

\* Number(s) of a string: the empty (or blank) string is 0, a run of decimal
\* digits is its value, anything else is NaN
RECURSIVE DigitsToNum(_)
DigitsToNum(s) ==
    IF Len(s) = 0 THEN 0
    ELSE 10 * DigitsToNum(SubSeq(s, 1, Len(s) - 1)) + DigitValue(s[Len(s)])

StrToNum(s) ==
    LET OfTrimmed(t) ==
            IF \A i \in 1..Len(t) : IsDigit(t[i]) THEN DigitsToNum(t) ELSE NaN
    IN  OfTrimmed(Trim(s))

\* s.toLowerCase()
ToLowerCase(s) ==
    [i \in 1..Len(s) |->
        IF \E k \in 1..Len(UpperCase) : UpperCase[k] = s[i]
        THEN LowerCase[CHOOSE k \in 1..Len(UpperCase) : UpperCase[k] = s[i]]
        ELSE s[i]]

\* s.includes(sub)
Includes(s, sub) ==
    \E k \in 0..(Len(s) - Len(sub)) : SubSeq(s, k + 1, k + Len(sub)) = sub

\* s.split(",")
RECURSIVE SplitComma(_)
SplitComma(s) ==
    IF \E i \in 1..Len(s) : s[i] = ","
    THEN LET k == CHOOSE i \in 1..Len(s) :
                     s[i] = "," /\ \A j \in 1..(i - 1) : s[j] # ","
         IN  <<SubSeq(s, 1, k - 1)>> \o SplitComma(SubSeq(s, k + 1, Len(s)))
    ELSE <<s>>

\* arr.join(",") of strings
RECURSIVE JoinComma(_)
JoinComma(parts) ==
    IF Len(parts) = 0 THEN <<>>
    ELSE IF Len(parts) = 1 THEN parts[1]
    ELSE parts[1] \o <<",">> \o JoinComma(Tail(parts))

\* String(v)
ToStr(v) ==
    CASE v.t = "undefined" -> <<"u", "n", "d", "e", "f", "i", "n", "e", "d">>
      [] v.t = "null"      -> <<"n", "u", "l", "l">>
      [] v.t = "number"    -> NumToStr(v.n)
      [] v.t = "string"    -> v.s
      [] v.t = "array"     ->
            JoinComma([i \in 1..Len(v.a) |->
                         CASE IsNullish(v.a[i])     -> <<>>
                           [] v.a[i].t = "number"   -> NumToStr(v.a[i].n)
                           [] OTHER                 -> v.a[i].s])

\* Number(v); NaN when v does not convert
ToNum(v) ==
    CASE v.t = "undefined" -> NaN
      [] v.t = "null"      -> 0
      [] v.t = "number"    -> v.n
      [] v.t = "string"    -> StrToNum(v.s)
      [] v.t = "array"     -> IF Len(v.a) = 0 THEN 0
                              ELSE IF Len(v.a) = 1 THEN StrToNum(ToStr(v))
                              ELSE NaN

\* JSON.parse(s) of the texts the payloads carry: null, a number, a quoted
\* string without escapes, or an array of those; ok = FALSE is a SyntaxError
JsonScalar(s) ==
    IF s = <<"n", "u", "l", "l">> THEN [ok |-> TRUE, value |-> Null]
    ELSE IF Len(s) > 0 /\ \A i \in 1..Len(s) : IsDigit(s[i])
    THEN [ok |-> TRUE, value |-> Num(DigitsToNum(s))]
    ELSE IF /\ Len(s) >= 2
            /\ s[1] = "\""
            /\ s[Len(s)] = "\""
            /\ \A i \in 2..(Len(s) - 1) : s[i] # "\""
    THEN [ok |-> TRUE, value |-> Str(SubSeq(s, 2, Len(s) - 1))]
    ELSE [ok |-> FALSE, value |-> Undefined]

JsonParse(s) ==
    LET OfElements(elems) ==
            IF \A i \in 1..Len(elems) : elems[i].ok
            THEN [ok |-> TRUE, value |-> Arr([i \in 1..Len(elems) |-> elems[i].value])]
            ELSE [ok |-> FALSE, value |-> Undefined]
        OfParts(parts) ==
            OfElements([i \in 1..Len(parts) |-> JsonScalar(Trim(parts[i]))])
        OfInner(inner) ==
            IF Len(inner) = 0 THEN [ok |-> TRUE, value |-> Arr(<<>>)]
            ELSE OfParts(SplitComma(inner))
        OfTrimmed(t) ==
            IF Len(t) >= 2 /\ t[1] = "[" /\ t[Len(t)] = "]"
            THEN OfInner(Trim(SubSeq(t, 2, Len(t) - 1)))
            ELSE JsonScalar(t)
    IN  OfTrimmed(Trim(s))

----------------------------------------------------------------------------
(* Client: the payload normalizer
   (src/src/pages/ManageOnboarding.tsx:25-120) *)

Male == <<"M", "a", "l", "e">>

Female == <<"F", "e", "m", "a", "l", "e">>

NonBinary == <<"N", "o", "n", "-", "b", "i", "n", "a", "r", "y">>

AllGenders == <<"A", "l", "l", " ", "G", "e", "n", "d", "e", "r", "s">>

KNOWN_GENDERS == <<Male, Female, NonBinary, AllGenders>>

Uncategorized == <<"U", "n", "c", "a", "t", "e", "g", "o", "r", "i", "z", "e", "d">>

\* toNumber(val, fallback)
toNumber(val, fallback) ==
    LET OrFallback(n) == IF n # NaN THEN n ELSE fallback
    IN  OrFallback(ToNum(val))

normalizeGender(val) ==
    LET Tag(str, lower) ==
            IF Len(str) = 0 THEN AllGenders
            ELSE IF \/ lower = <<"m">>
                    \/ lower = <<"m", "a", "l", "e">>
                    \/ Includes(lower, <<"m", "a", "l", "e">>)
            THEN Male
            ELSE IF \/ lower = <<"f">>
                    \/ lower = <<"f", "e", "m", "a", "l", "e">>
                    \/ Includes(lower, <<"f", "e", "m", "a", "l", "e">>)
            THEN Female
            ELSE IF \/ Includes(lower, <<"n", "o", "n">>)
                    \/ Includes(lower, <<"n", "o", "n", "b", "i", "n", "a", "r", "y">>)
                    \/ Includes(lower, <<"n", "o", "n", "-", "b", "i", "n", "a", "r", "y">>)
            THEN NonBinary
            ELSE IF Includes(lower, <<"a", "l", "l">>)
            THEN AllGenders
            ELSE IF \E k \in 1..Len(KNOWN_GENDERS) : KNOWN_GENDERS[k] = str
            THEN str
            ELSE AllGenders
        OfTrimmed(str) == Tag(str, ToLowerCase(str))
    IN  IF IsNullish(val) THEN AllGenders ELSE OfTrimmed(Trim(ToStr(val)))

\* a raw item of a payload: an object with the keys the normalizer reads
\* (a key the object lacks reads as undefined), or null
EmptyItem ==
    [kind |-> "object",
     id |-> Undefined, question_id |-> Undefined, questionId |-> Undefined,
     qid |-> Undefined,
     text |-> Undefined, question_text |-> Undefined, questionText |-> Undefined,
     question |-> Undefined, body |-> Undefined,
     order |-> Undefined, displayOrder |-> Undefined, sort |-> Undefined,
     category |-> Undefined, phase |-> Undefined, phaseName |-> Undefined,
     applicableFor |-> Undefined, applicable_for |-> Undefined]

NullItem == [EmptyItem EXCEPT !.kind = "null"]

\* faulty variant: no de-duplication
DedupeTags_keepAll(tags) == tags

\* Array.from(new Set(tags)): the first occurrence of each tag, in order
DedupeTags(tags) ==
    LET keep == {i \in 1..Len(tags) : \A j \in 1..(i - 1) : tags[j] # tags[i]}
        Nth(k) == CHOOSE i \in keep : Cardinality({j \in keep : j <= i}) = k
    IN  [k \in 1..Cardinality(keep) |-> tags[Nth(k)]]

\* the gender tags that normalizeQuestion reads off the item, before the
\* default and the de-duplication
RawTags(item) ==
    LET Each(values) == [i \in 1..Len(values) |-> normalizeGender(values[i])]
        Strings(parts) == [i \in 1..Len(parts) |-> Str(parts[i])]
        OfString(rawAppFor, parsed) ==
            IF parsed.ok
            THEN IF parsed.value.t = "array"
                 THEN Each(parsed.value.a)
                 ELSE Each(<<parsed.value>>)
            ELSE IF Includes(rawAppFor.s, <<",">>)
                 THEN Each(Strings(SplitComma(rawAppFor.s)))
                 ELSE Each(<<rawAppFor>>)
        OfRaw(rawAppFor) ==
            IF rawAppFor.t = "array"
            THEN Each(rawAppFor.a)
            ELSE IF rawAppFor.t = "string"
            THEN OfString(rawAppFor, JsonParse(rawAppFor.s))
            ELSE <<>>
    IN  OfRaw(Coalesce(item.applicableFor, item.applicable_for))

\* threw = TRUE stands for the TypeError of reading a property of null
normalizeQuestion(item) ==
    IF item.kind = "null"
    THEN [threw |-> TRUE, q |-> EmptyItem]
    ELSE LET id ==
                 IF ~IsNullish(item.id) /\ item.id # Str(<<>>)
                 THEN ToStr(item.id)
                 ELSE IF ~IsFalsy(item.question_id)
                 THEN ToStr(item.question_id)
                 ELSE ToStr(Coalesce(item.questionId, Str(<<>>)))
             questionId ==
                 Coalesce(item.questionId,
                    Coalesce(item.question_id, Coalesce(item.qid, Str(<<>>))))
             text ==
                 Coalesce(item.text,
                    Coalesce(item.question_text,
                       Coalesce(item.questionText,
                          Coalesce(item.question, Coalesce(item.body, Str(<<>>))))))
             order ==
                 toNumber(Coalesce(item.order, Coalesce(item.displayOrder, item.sort)), 0)
             category ==
                 ToStr(Coalesce(item.category,
                          Coalesce(item.phase, Coalesce(item.phaseName, Str(Uncategorized)))))
             OrDefault(tags) == IF Len(tags) = 0 THEN <<AllGenders>> ELSE tags
             Strings(tags) == Arr([i \in 1..Len(tags) |-> Str(tags[i])])
             applicableFor == Strings(DedupeTags(OrDefault(RawTags(item))))
         IN  [threw |-> FALSE,
              q     |-> [EmptyItem EXCEPT
                            !.id            = Str(id),
                            !.questionId    = questionId,
                            !.text          = text,
                            !.order         = Num(order),
                            !.category      = Str(category),
                            !.applicableFor = applicableFor]]

\* a.localeCompare(b) on strings of digits and capital letters: -1, 0 or 1
RECURSIVE localeCompare(_, _)
localeCompare(a, b) ==
    IF Len(a) = 0 /\ Len(b) = 0 THEN 0
    ELSE IF Len(a) = 0 THEN -1
    ELSE IF Len(b) = 0 THEN 1
    ELSE IF CharCode(a[1]) < CharCode(b[1]) THEN -1
    ELSE IF CharCode(a[1]) > CharCode(b[1]) THEN 1
    ELSE localeCompare(Tail(a), Tail(b))

\* faulty variant: no tie-break on the id
CompareNormalized_orderOnly(a, b) == a.order.n - b.order.n

\* the comparator of normalizeArray
CompareNormalized(a, b) ==
    IF a.order.n # b.order.n THEN a.order.n - b.order.n
    ELSE localeCompare(a.id.s, b.id.s)

\* qs.sort(CompareNormalized): the sort is stable, so the item at index i
\* comes after the items that compare lower and after the equal ones before it
SortNormalized(qs) ==
    LET Before(c, j, i) == c < 0 \/ (c = 0 /\ j < i)
        Rank(i) ==
            1 + Cardinality({j \in 1..Len(qs) :
                                Before(CompareNormalized(qs[j], qs[i]), j, i)})
    IN  [k \in 1..Len(qs) |-> qs[CHOOSE i \in 1..Len(qs) : Rank(i) = k]]

\* a payload: shape "array" is the array `items`, "wrapper" an object whose
\* questions property is that array, "object" an object without it, "null"
\* and "number" the values null and 5
Payload(shape, items) == [shape |-> shape, items |-> items]

normalizeArray(payload) ==
    LET arr == IF payload.shape \in {"array", "wrapper"} THEN payload.items ELSE <<>>
        Sorted(normalized) ==
            IF \E i \in 1..Len(normalized) : normalized[i].threw
            THEN [threw |-> TRUE, list |-> <<>>]
            ELSE [threw |-> FALSE,
                  list  |-> SortNormalized([i \in 1..Len(normalized) |->
                                              normalized[i].q])]
        Mapped(items) == Sorted([i \in 1..Len(items) |-> normalizeQuestion(items[i])])
    IN  Mapped(arr)

\* the result of a normalizeArray call that was not made yet
NotRun == [done |-> FALSE, threw |-> FALSE, list |-> <<>>]

Ran(result) == [done |-> TRUE, threw |-> result.threw, list |-> result.list]

----------------------------------------------------------------------------
(* Inputs *)

\* POST bodies: the two questions of the end-to-end scenario
ValidCreateBodies ==
    { [NoBody EXCEPT !.has = {"text", "category"},
                     !.text = "Age?", !.category = "Demographics"],
      [NoBody EXCEPT !.has = {"text", "category", "applicableFor"},
                     !.text = "Goal?", !.category = "Goals",
                     !.applicableFor = <<"Male">>] }

\* POST bodies that miss text or category, or carry them empty
InvalidCreateBodies ==
    { NoBody,
      [NoBody EXCEPT !.has = {"category"}, !.category = "Goals"],
      [NoBody EXCEPT !.has = {"text"}, !.text = "Age?"],
      [NoBody EXCEPT !.has = {"text", "category"}, !.category = "Goals"],
      [NoBody EXCEPT !.has = {"text", "category"}, !.text = "Age?"] }

CreateBodies == ValidCreateBodies \cup InvalidCreateBodies

\* PUT /:id bodies: partial questions, one of them carrying id and order too
UpdateBodies ==
    { NoBody,
      [NoBody EXCEPT !.has = {"text"}, !.text = "Goal?"],
      [NoBody EXCEPT !.has = {"text"}],
      [NoBody EXCEPT !.has = {"category", "applicableFor", "id", "order"},
                     !.category = "Goals", !.applicableFor = <<"Male">>,
                     !.id = 2, !.order = 7] }

\* ids a caller may name: the ids the store can hand out
IdPool == 1..MaxId

RECURSIVE SeqsUpTo(_, _)
SeqsUpTo(S, n) ==
    IF n = 0 THEN {<<>>}
    ELSE LET shorter == SeqsUpTo(S, n - 1)
         IN  shorter \cup {Append(t, x) : t \in {u \in shorter : Len(u) = n - 1}, x \in S}

OrderedIdSeqs == SeqsUpTo(IdPool, MaxOrderedLen)

\* PUT /reorder bodies: {orderedIds: [...]}, the client's {questions: [...]},
\* and a body with neither
ReorderBodies ==
    { [NoBody EXCEPT !.has = {"orderedIds"}, !.orderedIds = s] : s \in OrderedIdSeqs }
    \cup { [NoBody EXCEPT !.has = {"questions"}, !.questions = <<2, 1>>], NoBody }

\* last path segments: the spellings of the ids, and "reorder"
Segments == {DigitStr[n] : n \in IdPool} \cup {"reorder"}

ItemPaths == {<<"api", "questions", seg>> : seg \in Segments}

CollectionPath == <<"api", "questions">>

ReorderPath == <<"api", "questions", "reorder">>

----------------------------------------------------------------------------
(* Steps *)

IdsOf(qs) == {qs[i].id : i \in 1..Len(qs)}

\* the handler ran to completion: the store and the response are as it left
\* them
Commit(r, out) ==
    /\ out.nextId <= MaxId + 1
    /\ req' = r
    /\ res' = out.res
    /\ questions' = out.questions
    /\ nextId' = out.nextId
    /\ everIds' = everIds \cup IdsOf(out.questions)
    /\ UNCHANGED entry
    /\ UNCHANGED normVars
    /\ UNCHANGED clientVars

Http(method, path, body) == [NoReq EXCEPT !.op = method, !.path = path, !.body = body]

Invoke(op, param, body) == [NoReq EXCEPT !.op = op, !.param = param, !.body = body]

(* entry = "handlers": the exported handlers of part_000, each invoked with
   req.params.id and req.body; they call the service *)

HGet ==
    /\ entry = "handlers"
    /\ Commit(Invoke("handleGetQuestions", "", NoBody),
              handleGetQuestions(questions, nextId, "", NoBody))

HCreate ==
    /\ entry = "handlers"
    /\ \E body \in CreateBodies :
          Commit(Invoke("handleCreateQuestion", "", body),
                 handleCreateQuestion(questions, nextId, "", body))

HUpdate ==
    /\ entry = "handlers"
    /\ \E param \in Segments, body \in UpdateBodies :
          Commit(Invoke("handleUpdateQuestion", param, body),
                 handleUpdateQuestion(questions, nextId, param, body))

HDelete ==
    /\ entry = "handlers"
    /\ \E param \in Segments :
          Commit(Invoke("handleDeleteQuestion", param, NoBody),
                 handleDeleteQuestion(questions, nextId, param, NoBody))

HReorder ==
    /\ entry = "handlers"
    /\ \E body \in ReorderBodies :
          Commit(Invoke("handleReorderQuestions", "", body),
                 handleReorderQuestions(questions, nextId, "", body))

(* entry = "app": HTTP requests to the Express application *)

Serve(method, path, body) ==
    Commit(Http(method, path, body), Dispatch(questions, nextId, method, path, body))

AppGet ==
    /\ entry = "app"
    /\ Serve("GET", CollectionPath, NoBody)

AppPost ==
    /\ entry = "app"
    /\ \E body \in CreateBodies : Serve("POST", CollectionPath, body)

AppPut ==
    /\ entry = "app"
    /\ \/ \E path \in ItemPaths \cup {CollectionPath}, body \in UpdateBodies :
              Serve("PUT", path, body)
       \/ \E body \in ReorderBodies : Serve("PUT", ReorderPath, body)

AppDelete ==
    /\ entry = "app"
    /\ \E path \in ItemPaths : Serve("DELETE", path, NoBody)

(* entry = "controller": the handlers over db.ts, invoked with req.params.id
   and req.body *)

CtlGet ==
    /\ entry = "controller"
    /\ Commit(Invoke("getQuestions", "", NoBody), getQuestions(questions, nextId, "", NoBody))

CtlCreate ==
    /\ entry = "controller"
    /\ \E body \in CreateBodies :
          Commit(Invoke("createQuestion", "", body),
                 ctlCreateQuestion(questions, nextId, "", body))

CtlUpdate ==
    /\ entry = "controller"
    /\ \E param \in Segments, body \in UpdateBodies :
          Commit(Invoke("updateQuestion", param, body),
                 ctlUpdateQuestion(questions, nextId, param, body))

CtlDelete ==
    /\ entry = "controller"
    /\ \E param \in Segments :
          Commit(Invoke("deleteQuestion", param, NoBody),
                 ctlDeleteQuestion(questions, nextId, param, NoBody))

\* the store after construction, before any request
StoreInit ==
    /\ questions = <<>>
    /\ nextId = 1
    /\ req = NoReq
    /\ res = NoRes
    /\ everIds = {}

\* the normalizer before its first call
NormInit ==
    /\ rawPayload = Payload("null", <<>>)
    /\ normalizedOnce = NotRun
    /\ normalizedTwice = NotRun
    /\ genderIn = Undefined
    /\ genderOut = <<>>

\* null, as the value of error and of successMessage; a message is a string
NoMessage == "null"

\* a handleDrop call suspended at its fetch: what its closure holds
NoCommit == [cid |-> 0, previousState |-> <<>>, sentIds |-> <<>>]

\* how a fetch settles: it rejects (transport "networkError"), or resolves
\* with a status and a body whose text cannot be read (transport
\* "textError"), is not JSON (parses = FALSE) or is JSON: the questions in
\* the order asked for in a wrapper object (body "questions"), the empty
\* array (body "emptyArray"), the array [null] (body "nullItem") or an object
\* without questions (body "object")
NoResponse == [transport |-> "none", status |-> 0, parses |-> FALSE, body |-> "none"]

\* the handler run by a step: its id argument, the draggedId it read, the
\* request it sent or whose settling it handled, and how that settled
NoEvent ==
    [handler |-> "none", id |-> <<>>, dragged |-> Null, commit |-> NoCommit,
     response |-> NoResponse]

\* the component once mounted: the state hooks hold their initial values and
\* the mount effect has started loadQuestions, which awaits its fetch
ClientInit ==
    /\ loading = TRUE
    /\ uiQuestions = <<>>
    /\ draggedId = Null
    /\ dragOverId = Null
    /\ savingReorder = FALSE
    /\ error = NoMessage
    /\ successMessage = NoMessage
    /\ inFlight = {}
    /\ commits = 0
    /\ deletingId = Null
    /\ deletes = 0
    /\ deletedIds = {}
    /\ event = NoEvent

Init ==
    /\ entry \in {"handlers", "app", "controller"}
    /\ StoreInit
    /\ NormInit
    /\ ClientInit

Next ==
    \/ HGet \/ HCreate \/ HUpdate \/ HDelete \/ HReorder
    \/ AppGet \/ AppPost \/ AppPut \/ AppDelete
    \/ CtlGet \/ CtlCreate \/ CtlUpdate \/ CtlDelete

Spec == Init /\ [][Next]_vars

----------------------------------------------------------------------------
(* Client: the normalizer applied to payloads *)

\* {id: 4, text: "Age", order: 2, category: "Goals", applicableFor: ["Female"]}
ItemPlain ==
    [EmptyItem EXCEPT !.id = Num(4), !.text = Str(<<"A", "g", "e">>), !.order = Num(2),
                      !.category = Str(<<"G", "o", "a", "l", "s">>),
                      !.applicableFor = Arr(<<Str(Female)>>)]

\* {id: "10", text: "Goal", order: "2", applicableFor: "[\"Male\",\"Non-binary\"]"}
ItemTen ==
    [EmptyItem EXCEPT !.id = Str(<<"1", "0">>), !.text = Str(<<"G", "o", "a", "l">>),
                      !.order = Str(<<"2">>),
                      !.applicableFor =
                          Str(<<"[", "\"">> \o Male \o <<"\"", ",", "\"">> \o NonBinary
                              \o <<"\"", "]">>)]

\* {question_id: "Q7", question_text: "Age", displayOrder: 1, phase: "Goals",
\*  applicable_for: "male, ALL"}
ItemAlias ==
    [EmptyItem EXCEPT !.question_id = Str(<<"Q", "7">>),
                      !.question_text = Str(<<"A", "g", "e">>),
                      !.displayOrder = Num(1),
                      !.phase = Str(<<"G", "o", "a", "l", "s">>),
                      !.applicable_for =
                          Str(<<"m", "a", "l", "e", ",", " ", "A", "L", "L">>)]

\* {qid: "Q7", text: "Goal"}
ItemQidOnly ==
    [EmptyItem EXCEPT !.qid = Str(<<"Q", "7">>), !.text = Str(<<"G", "o", "a", "l">>)]

\* {id: 9, order: "abc", applicableFor: ["Male", " male ", null]}
ItemDupGender ==
    [EmptyItem EXCEPT !.id = Num(9), !.order = Str(<<"a", "b", "c">>),
                      !.applicableFor =
                          Arr(<<Str(Male), Str(<<" ", "m", "a", "l", "e", " ">>), Null>>)]

\* {id: 9, order: 2, applicableFor: []}
ItemEmptyTags ==
    [EmptyItem EXCEPT !.id = Num(9), !.order = Num(2), !.applicableFor = Arr(<<>>)]

RawItems ==
    {ItemPlain, ItemTen, ItemAlias, ItemQidOnly, ItemDupGender, ItemEmptyTags,
     EmptyItem, NullItem}

Payloads ==
    {Payload(shape, items) : shape \in {"array", "wrapper"},
                             items \in SeqsUpTo(RawItems, MaxItems)}
    \cup {Payload("null", <<>>), Payload("number", <<>>), Payload("object", <<>>)}

GenderValues ==
    {Undefined, Null, Num(5), Str(<<>>), Str(<<" ">>),
     Str(Male), Str(Female), Str(NonBinary), Str(AllGenders),
     Str(<<"f", "e", "m", "a", "l", "e">>), Str(<<"F">>), Str(<<"m">>),
     Str(<<"M", "A", "L", "E", " ">>),
     Str(<<"n", "o", "n", "b", "i", "n", "a", "r", "y">>),
     Str(<<"a", "l", "l">>), Str(<<"o", "t", "h", "e", "r">>)}

\* nothing was normalized yet in this behaviour
NormIdle == ~normalizedOnce.done /\ genderOut = <<>>

\* a payload arrives and is normalized
Normalize ==
    /\ NormIdle
    /\ \E p \in Payloads :
          /\ rawPayload' = p
          /\ normalizedOnce' = Ran(normalizeArray(p))
    /\ UNCHANGED <<normalizedTwice, genderIn, genderOut>>
    /\ UNCHANGED serverVars
    /\ UNCHANGED clientVars

\* the normalized list is given to the normalizer again
Renormalize ==
    /\ normalizedOnce.done
    /\ ~normalizedOnce.threw
    /\ ~normalizedTwice.done
    /\ normalizedTwice' = Ran(normalizeArray(Payload("array", normalizedOnce.list)))
    /\ UNCHANGED <<rawPayload, normalizedOnce, genderIn, genderOut>>
    /\ UNCHANGED serverVars
    /\ UNCHANGED clientVars

\* one gender value is normalized
NormalizeGender ==
    /\ NormIdle
    /\ \E v \in GenderValues :
          /\ genderIn' = v
          /\ genderOut' = normalizeGender(v)
    /\ UNCHANGED <<rawPayload, normalizedOnce, normalizedTwice>>
    /\ UNCHANGED serverVars
    /\ UNCHANGED clientVars

InitNorm ==
    /\ entry = "client"
    /\ StoreInit
    /\ NormInit
    /\ ClientInit

NextNorm == Normalize \/ Renormalize \/ NormalizeGender

SpecNorm == InitNorm /\ [][NextNorm]_vars

----------------------------------------------------------------------------
(* Client: the reorder reconciler of ManageOnboarding.

   A handler runs to its first await in one step: React applies the state
   updates of that stretch together, so of several updates to one hook the
   last one is the state the next render shows.  The rest of handleDrop runs
   when its fetch settles; between the fetch and the reading of the body it
   updates no state, so it is one step as well.                            *)

\* the ids handleDrop expects in every payload: "4" .. "28"
ExpectedIds == {NumToStr(i) : i \in 4..28}

\* {id: n, questionId: "Q<n>", text: "Age", order: k}
ServerItem(n, k) ==
    [EmptyItem EXCEPT !.id = Num(n), !.questionId = Str(<<"Q">> \o NumToStr(n)),
                      !.text = Str(<<"A", "g", "e">>), !.order = Num(k)]

\* the deployment's questionnaire: one question per expected id, in order
FullItems == [k \in 1..Cardinality(ExpectedIds) |-> ServerItem(k + 3, k)]

\* a questionnaire of three questions with the ids 1, 2 and 3
ShortItems == [k \in 1..3 |-> ServerItem(k, k)]

\* how the fetch of loadQuestions settles
LoadResponses ==
    {[ok |-> TRUE, data |-> Payload("wrapper", FullItems)],
     [ok |-> TRUE, data |-> Payload("array", ShortItems)],
     [ok |-> FALSE, data |-> Payload("object", <<>>)]}

\* q.id && q.id !== '' && q.id !== 'undefined' && q.id !== 'null'
ValidLoadedId(q) ==
    /\ q.id.s # <<>>
    /\ q.id.s # <<"u", "n", "d", "e", "f", "i", "n", "e", "d">>
    /\ q.id.s # <<"n", "u", "l", "l">>

\* loadQuestions from the settling of its fetch on: the list and the error
\* the component is left with
loadQuestions(qs, r) ==
    IF ~r.ok
    THEN [questions |-> qs, error |-> "Failed to fetch questions"]
    ELSE LET rawItems == IF r.data.shape \in {"array", "wrapper"}
                         THEN r.data.items ELSE <<>>
             Loaded(validQuestions) ==
                 [questions |-> validQuestions,
                  error     |-> IF Len(validQuestions) = 0 /\ Len(rawItems) > 0
                                THEN "Data validation error"
                                ELSE NoMessage]
             Checked(normalized) ==
                 IF r.data.shape = "null" \/ normalized.threw
                 THEN [questions |-> qs, error |-> "TypeError"]
                 ELSE Loaded(SortNormalized(SelectSeq(normalized.list, ValidLoadedId)))
         IN  Checked(normalizeArray(r.data))

\* questions.findIndex((q) => q.id === id), counted from 1; 0 stands for -1
findIndexById(qs, id) ==
    IF \E i \in 1..Len(qs) : qs[i].id.s = id
    THEN CHOOSE i \in 1..Len(qs) :
            /\ qs[i].id.s = id
            /\ \A j \in 1..(i - 1) : qs[j].id.s # id
    ELSE 0

\* const [moved] = list.splice(fromIndex, 1); list.splice(toIndex, 0, moved)
MoveItem(qs, fromIndex, toIndex) ==
    LET moved == qs[fromIndex]
        rest  == SubSeq(qs, 1, fromIndex - 1) \o SubSeq(qs, fromIndex + 1, Len(qs))
    IN  SubSeq(rest, 1, toIndex - 1) \o <<moved>> \o SubSeq(rest, toIndex, Len(rest))

\* list.map((q, i) => ({ ...q, order: i + 1 }))
Renumber(qs) == [i \in 1..Len(qs) |-> [qs[i] EXCEPT !.order = Num(i)]]

\* !q.id || q.id === '' || q.id === 'undefined'
InvalidPayloadId(q) ==
    \/ q.id.s = <<>>
    \/ q.id.s = <<"u", "n", "d", "e", "f", "i", "n", "e", "d">>

\* the Error that building and validating the payload throws, if any
PayloadError(list) ==
    LET sentIds == {list[i].id.s : i \in 1..Len(list)}
    IN  IF \E i \in 1..Len(list) : InvalidPayloadId(list[i])
        THEN "Invalid ID detected"
        ELSE IF \E id \in ExpectedIds : id \notin sentIds
        THEN "Missing IDs"
        ELSE IF \E i, j \in 1..Len(list) : i # j /\ list[i].id.s = list[j].id.s
        THEN "Duplicate IDs"
        ELSE NoMessage

\* faulty variant: a drop of the dragged item on itself is not ignored
NoActionNeeded_nullOnly(dragged, targetId) == dragged = Null

\* draggedId === null || draggedId === targetId
NoActionNeeded(dragged, targetId) == dragged = Null \/ dragged = Str(targetId)

\* handleDrop up to its fetch: the state it leaves, and whether it sent the
\* request (then previousState and reorderedList stay in its closure)
handleDrop(qs, dragged, targetId, saving, err) ==
    LET fromIndex == IF dragged = Null THEN 0 ELSE findIndexById(qs, dragged.s)
        toIndex   == findIndexById(qs, targetId)
        ignored   == [questions |-> qs, savingReorder |-> saving, error |-> err,
                      sent |-> FALSE, previousState |-> qs, sentIds |-> <<>>]
    IN  IF NoActionNeeded(dragged, targetId)
        THEN ignored
        ELSE IF fromIndex = 0 \/ toIndex = 0
        THEN ignored
        ELSE LET reorderedList == Renumber(MoveItem(qs, fromIndex, toIndex))
                 previousState == qs
                 thrown        == PayloadError(reorderedList)
             IN  IF thrown # NoMessage
                 THEN [questions |-> previousState, savingReorder |-> FALSE,
                       error |-> thrown, sent |-> FALSE,
                       previousState |-> previousState, sentIds |-> <<>>]
                 ELSE [questions |-> reorderedList, savingReorder |-> TRUE,
                       error |-> NoMessage, sent |-> TRUE,
                       previousState |-> previousState,
                       sentIds |-> [i \in 1..Len(reorderedList) |->
                                       reorderedList[i].id.s]]

\* faulty variant: a failed commit leaves the visible list as it is
RestoredList_keepVisible(qs, c) == qs

\* setQuestions(previousState)
RestoredList(qs, c) == c.previousState

\* the JSON value of a response body: for "questions" the server's questions
\* in the order that commit c asked for
ResponseData(c, r) ==
    IF r.body = "questions"
    THEN Payload("wrapper",
                 [k \in 1..Len(c.sentIds) |-> ServerItem(StrToNum(c.sentIds[k]), k)])
    ELSE IF r.body = "emptyArray"
    THEN Payload("array", <<>>)
    ELSE IF r.body = "nullItem"
    THEN Payload("array", <<NullItem>>)
    ELSE Payload("object", <<>>)

\* faulty variant: the server's list is shown even when it is empty
SyncedList_always(qs, serverQuestions) == serverQuestions

\* if (serverQuestions.length > 0) setQuestions(serverQuestions)
SyncedList(qs, serverQuestions) ==
    IF Len(serverQuestions) > 0 THEN serverQuestions ELSE qs

\* handleDrop from the settling of its fetch on: the list, the error and the
\* success message it leaves (savingReorder is false on every path)
reorderSettled(qs, err, msg, c, r) ==
    LET data == ResponseData(c, r)
        rollback(m) ==
            [questions |-> RestoredList(qs, c), error |-> m, successMessage |-> msg]
        Synced(serverQuestions) ==
            IF serverQuestions.threw
            THEN rollback("TypeError")
            ELSE [questions |-> SyncedList(qs, serverQuestions.list),
                  error |-> err,
                  successMessage |-> "Questions reordered successfully!"]
    IN  IF r.transport = "networkError"
        THEN rollback("Network error")
        ELSE IF r.transport = "textError"
        THEN rollback("Error: Could not read server response")
        ELSE IF ~r.parses
        THEN rollback("JSON parse error")
        ELSE IF r.status \notin 200..299
        THEN IF data.shape = "null"
             THEN rollback("TypeError")
             ELSE rollback("Server error")
        ELSE IF data.shape \in {"array", "wrapper"}
        THEN Synced(normalizeArray(data))
        ELSE [questions |-> qs, error |-> err,
              successMessage |-> "Questions reordered successfully!"]

\* faulty variant: the flag is left as the drop set it
SettledSaving_kept(saving) == saving

\* setSavingReorder(false): in the finally block, and before the return of
\* each path that handles its failure itself
SettledSaving(saving) == FALSE

\* the list items the pointer is taken to
GestureIds == {NumToStr(1), NumToStr(2), NumToStr(4), NumToStr(28)}

VisibleIds == {uiQuestions[i].id.s : i \in 1..Len(uiQuestions)}

\* how the fetch of a reorder request may settle
Responses ==
    {[NoResponse EXCEPT !.transport = "networkError"],
     [NoResponse EXCEPT !.transport = "textError", !.status = 200],
     [NoResponse EXCEPT !.transport = "ok", !.status = 200],
     [NoResponse EXCEPT !.transport = "ok", !.status = 500, !.parses = TRUE,
                        !.body = "object"],
     [NoResponse EXCEPT !.transport = "ok", !.status = 200, !.parses = TRUE,
                        !.body = "questions"],
     [NoResponse EXCEPT !.transport = "ok", !.status = 200, !.parses = TRUE,
                        !.body = "emptyArray"],
     [NoResponse EXCEPT !.transport = "ok", !.status = 200, !.parses = TRUE,
                        !.body = "nullItem"],
     [NoResponse EXCEPT !.transport = "ok", !.status = 200, !.parses = TRUE,
                        !.body = "object"]}

\* the behaviour sends at most MaxDrops reorder and delete requests; no
\* gesture is made once the last of them is sent
Gesturing == commits + deletes < MaxDrops

Handled(handler, id) == [NoEvent EXCEPT !.handler = handler, !.id = id]

\* the fetch of loadQuestions settles
LoadQuestions ==
    /\ loading
    /\ \E r \in LoadResponses :
          \E out \in {loadQuestions(uiQuestions, r)} :
             /\ uiQuestions' = out.questions
             /\ error' = out.error
    /\ loading' = FALSE
    /\ event' = Handled("loadQuestions", <<>>)
    /\ UNCHANGED <<draggedId, dragOverId, savingReorder, successMessage,
                   inFlight, commits, deletingId, deletes, deletedIds>>
    /\ UNCHANGED <<serverVars, normVars>>

\* the list items are draggable while no delete is pending
HandleDragStart ==
    /\ Gesturing
    /\ deletingId = Null
    /\ \E id \in GestureIds \cap VisibleIds :
          /\ draggedId' = Str(id)
          /\ event' = Handled("handleDragStart", id)
    /\ UNCHANGED <<loading, uiQuestions, dragOverId, savingReorder, error,
                   successMessage, inFlight, commits, deletingId, deletes, deletedIds>>
    /\ UNCHANGED <<serverVars, normVars>>

\* dragover and dragleave reach the list items while an item is dragged
HandleDragOver ==
    /\ Gesturing
    /\ draggedId # Null
    /\ \E id \in GestureIds \cap VisibleIds :
          /\ dragOverId' = Str(id)
          /\ event' = Handled("handleDragOver", id)
    /\ UNCHANGED <<loading, uiQuestions, draggedId, savingReorder, error,
                   successMessage, inFlight, commits, deletingId, deletes, deletedIds>>
    /\ UNCHANGED <<serverVars, normVars>>

HandleDragLeave ==
    /\ Gesturing
    /\ draggedId # Null
    /\ dragOverId' = Null
    /\ event' = Handled("handleDragLeave", <<>>)
    /\ UNCHANGED <<loading, uiQuestions, draggedId, savingReorder, error,
                   successMessage, inFlight, commits, deletingId, deletes, deletedIds>>
    /\ UNCHANGED <<serverVars, normVars>>

HandleDrop ==
    /\ Gesturing
    /\ \E targetId \in GestureIds \cap VisibleIds :
          \E out \in {handleDrop(uiQuestions, draggedId, targetId, savingReorder, error)} :
             LET c == [cid |-> commits + 1, previousState |-> out.previousState,
                       sentIds |-> out.sentIds]
             IN  /\ uiQuestions' = out.questions
                 /\ savingReorder' = out.savingReorder
                 /\ error' = out.error
                 /\ inFlight' = IF out.sent THEN inFlight \cup {c} ELSE inFlight
                 /\ commits' = IF out.sent THEN commits + 1 ELSE commits
                 /\ event' = [Handled("handleDrop", targetId) EXCEPT
                                 !.dragged = draggedId,
                                 !.commit = IF out.sent THEN c ELSE NoCommit]
    /\ draggedId' = Null
    /\ dragOverId' = Null
    /\ UNCHANGED <<loading, successMessage, deletingId, deletes, deletedIds>>
    /\ UNCHANGED <<serverVars, normVars>>

\* the fetch of a reorder request settles and its handleDrop call runs on
ReorderSettled ==
    /\ \E c \in inFlight :
          \E r \in Responses :
             \E out \in {reorderSettled(uiQuestions, error, successMessage, c, r)} :
                /\ uiQuestions' = out.questions
                /\ error' = out.error
                /\ successMessage' = out.successMessage
                /\ inFlight' = inFlight \ {c}
                /\ event' = [Handled("reorderSettled", <<>>) EXCEPT
                                !.commit = c, !.response = r]
    /\ savingReorder' = SettledSaving(savingReorder)
    /\ UNCHANGED <<loading, draggedId, dragOverId, commits, deletingId, deletes,
                   deletedIds>>
    /\ UNCHANGED <<serverVars, normVars>>

HandleDragEnd ==
    /\ Gesturing
    /\ draggedId' = Null
    /\ dragOverId' = Null
    /\ event' = Handled("handleDragEnd", <<>>)
    /\ UNCHANGED <<loading, uiQuestions, savingReorder, error, successMessage,
                   inFlight, commits, deletingId, deletes, deletedIds>>
    /\ UNCHANGED <<serverVars, normVars>>

\* how the fetch of a delete request may settle: the status, 0 when the
\* fetch rejects
DeleteStatuses == {0, 204, 500}

\* handleDelete from the settling of its fetch on: the list, the error and
\* the success message it leaves (deletingId is null on every path)
deleteSettled(qs, err, msg, id, status) ==
    LET Other(q) == q.id.s # id
    IN  IF status = 0
        THEN [questions |-> qs, error |-> "Failed to fetch", successMessage |-> msg]
        ELSE IF status \notin 200..299 /\ status # 204
        THEN [questions |-> qs, error |-> "Delete failed: 500", successMessage |-> msg]
        ELSE [questions |-> SelectSeq(qs, Other), error |-> err,
              successMessage |-> "Question deleted successfully!"]

\* handleDelete up to its fetch; the user confirms the dialog
HandleDelete ==
    /\ Gesturing
    /\ deletingId = Null
    /\ \E id \in GestureIds \cap VisibleIds :
          /\ deletingId' = Str(id)
          /\ event' = Handled("handleDelete", id)
    /\ error' = NoMessage
    /\ deletes' = deletes + 1
    /\ UNCHANGED <<loading, uiQuestions, draggedId, dragOverId, savingReorder,
                   successMessage, inFlight, commits, deletedIds>>
    /\ UNCHANGED <<serverVars, normVars>>

\* the fetch of the delete request settles and its handleDelete call runs on
DeleteSettled ==
    /\ deletingId # Null
    /\ \E status \in DeleteStatuses :
          \E out \in {deleteSettled(uiQuestions, error, successMessage,
                                    deletingId.s, status)} :
             /\ uiQuestions' = out.questions
             /\ error' = out.error
             /\ successMessage' = out.successMessage
             /\ deletedIds' = IF status \in 200..299
                              THEN deletedIds \cup {deletingId.s}
                              ELSE deletedIds
             /\ event' = [Handled("deleteSettled", deletingId.s) EXCEPT
                             !.response = [NoResponse EXCEPT !.status = status]]
    /\ deletingId' = Null
    /\ UNCHANGED <<loading, draggedId, dragOverId, savingReorder, inFlight,
                   commits, deletes>>
    /\ UNCHANGED <<serverVars, normVars>>

\* the timer of the success message runs out
HideSuccessMessage ==
    /\ successMessage # NoMessage
    /\ successMessage' = NoMessage
    /\ event' = Handled("hideSuccessMessage", <<>>)
    /\ UNCHANGED <<loading, uiQuestions, draggedId, dragOverId, savingReorder,
                   error, inFlight, commits, deletingId, deletes, deletedIds>>
    /\ UNCHANGED <<serverVars, normVars>>

InitClient ==
    /\ entry = "client"
    /\ StoreInit
    /\ NormInit
    /\ ClientInit

NextClient ==
    \/ LoadQuestions
    \/ HandleDragStart \/ HandleDragOver \/ HandleDragLeave
    \/ HandleDrop \/ ReorderSettled \/ HandleDragEnd
    \/ HandleDelete \/ DeleteSettled
    \/ HideSuccessMessage

SpecClient == InitClient /\ [][NextClient]_vars

----------------------------------------------------------------------------
(* Reading a step: what the last request asked for *)

IsListReq(r) ==
    \/ r.op \in {"handleGetQuestions", "getQuestions"}
    \/ r.op = "GET" /\ r.path = CollectionPath

IsCreateReq(r) ==
    \/ r.op \in {"handleCreateQuestion", "createQuestion"}
    \/ r.op = "POST" /\ r.path = CollectionPath

IsReorderReq(r) ==
    \/ r.op = "handleReorderQuestions"
    \/ r.op = "PUT" /\ r.path = ReorderPath

IsUpdateReq(r) ==
    \/ r.op \in {"handleUpdateQuestion", "updateQuestion"}
    \/ r.op = "PUT" /\ Len(r.path) = 3 /\ r.path # ReorderPath

IsDeleteReq(r) ==
    \/ r.op \in {"handleDeleteQuestion", "deleteQuestion"}
    \/ r.op = "DELETE" /\ Len(r.path) = 3

\* the id an update or delete request addresses
TargetId(r) == IF Len(r.path) = 3 THEN NumberOf(r.path[3]) ELSE NumberOf(r.param)

\* the stored question with the given id, as a set (empty when absent)
Stored(qs, id) == {q \in Range(qs) : q.id = id}

\* ids that were stored once and are stored no longer
GoneIds(qs) == everIds \ IdsOf(qs)

----------------------------------------------------------------------------
(* Claims *)

\* C1: every create request with non-empty text and category is answered with
\* the new question, whose order is 1 + the greatest order stored before the
\* call, or 1 when the store was empty.
C1_CreateOrder ==
    [][ (IsCreateReq(req') /\ ~Falsy(req'.body, "text") /\ ~Falsy(req'.body, "category"))
        => /\ res'.status = 201
           /\ res'.kind = "object"
           /\ LET new == res'.body[1]
              IN  /\ \A q \in Range(questions) : q.order < new.order
                  /\ questions = <<>> => new.order = 1
                  /\ questions # <<>> => \E q \in Range(questions) : new.order = q.order + 1
      ]_vars

\* C1 witness: a create answered with order 3 while only one other question
\* is stored (the greatest prior order was 2, not the count).
C1_Witness ==
    /\ IsCreateReq(req)
    /\ res.status = 201
    /\ Len(questions) = 2
    /\ res.body[1].order = 3

\* C2 as stated: the stored orders are exactly 1..N and agree with position.
C2_OrderDense == \A i \in 1..Len(questions) : questions[i].order = i

IsPermutationOfIds(seq, qs) ==
    /\ Len(seq) = Len(qs)
    /\ Range(seq) = IdsOf(qs)

\* C2 (amended): after any sequence of mutations the stored list is in
\* ascending order of positive order values; the values are exactly 1..N, in
\* agreement with position, directly after a reorder whose sequence lists
\* every stored id exactly once.
C2_OrderSortedAndDenseAfterFullReorder ==
    /\ \A i \in 1..Len(questions) : questions[i].order >= 1
    /\ \A i, j \in 1..Len(questions) : i < j => questions[i].order <= questions[j].order
    /\ (/\ req.op = "handleReorderQuestions"
        /\ res.status = 200
        /\ IsPermutationOfIds(req.body.orderedIds, questions))
       => \A i \in 1..Len(questions) : questions[i].order = i

\* C2 witness: a full reorder that swapped two questions.
C2_Witness ==
    /\ req.op = "handleReorderQuestions"
    /\ req.body.orderedIds = <<2, 1>>
    /\ Len(questions) = 2
    /\ questions[1].id = 2
    /\ questions[1].order = 1

\* C3: a PUT /questions/reorder request whose body carries an array
\* orderedIds is answered 200 with the reordered array, and the store then
\* holds the questions in the submitted sequence.
C3_ReorderEndpoint ==
    (IsReorderReq(req) /\ Supplied(req.body, "orderedIds"))
    => /\ res.status = 200
       /\ res.kind = "array"
       /\ res.body = questions
       /\ IsPermutationOfIds(req.body.orderedIds, questions)
          => \A i \in 1..Len(questions) :
                questions[i].id = req.body.orderedIds[i] /\ questions[i].order = i

\* C4 as stated: the question whose id stands at position i (1-based here)
\* gets order i, for every position of the sequence; a question whose id is
\* not in the sequence keeps its order.
C4_ReorderEveryPosition ==
    [][ (req'.op = "handleReorderQuestions" /\ res'.status = 200)
        => LET seq == req'.body.orderedIds
           IN  /\ \A i \in 1..Len(seq) :
                     \A q \in Stored(questions', seq[i]) : q.order = i
               /\ \A q \in Range(questions) :
                     q.id \notin Range(seq) => q \in Range(questions')
      ]_vars

\* C4 (amended): reorder(orderedIds) assigns order = i+1 to the question whose
\* id stands at the LAST (0-based) position i at which that id occurs in the
\* sequence, for every id of the sequence that exists in the store, and leaves
\* the order of every question whose id is not in the sequence at its prior
\* value.
C4_ReorderLastPosition ==
    [][ (req'.op = "handleReorderQuestions" /\ res'.status = 200)
        => LET seq == req'.body.orderedIds
           IN  /\ \A i \in 1..Len(seq) :
                     (\A j \in (i + 1)..Len(seq) : seq[j] # seq[i])
                     => /\ \A q \in Stored(questions', seq[i]) : q.order = i
                        /\ Stored(questions, seq[i]) # {} => Stored(questions', seq[i]) # {}
               /\ \A q \in Range(questions) :
                     q.id \notin Range(seq) => q \in Range(questions')
      ]_vars

\* C4 witness: a reorder naming a stored id twice while another stored
\* question is not named; the named one has the order of its last position.
C4_Witness ==
    /\ req.op = "handleReorderQuestions"
    /\ req.body.orderedIds = <<1, 1>>
    /\ Len(questions) = 2
    /\ \E q \in Range(questions) : q.id = 1 /\ q.order = 2
    /\ \E q \in Range(questions) : q.id = 2

\* C5: the reorder endpoint answers a body {questions: [...]} with 200 and the
\* reordered array, and answers 400 only when the body carries no id array.
C5_ReorderBothBodyShapes ==
    IsReorderReq(req)
    => /\ Supplied(req.body, "questions") => (res.status = 200 /\ res.kind = "array")
       /\ res.status = 400
          => ~(Supplied(req.body, "orderedIds") \/ Supplied(req.body, "questions"))

\* C6: no two stored questions share an id, and the id of a newly stored
\* question was never the id of any question stored before, deleted ones
\* included.
C6_IdsUniqueNeverReused ==
    [][ /\ \A i, j \in 1..Len(questions') :
              i # j => questions'[i].id # questions'[j].id
        /\ \A id \in IdsOf(questions') \ IdsOf(questions) : id \notin everIds
        /\ Len(questions') > Len(questions) => IdsOf(questions') # IdsOf(questions)
      ]_vars

\* C6 witness: a question created after another one was deleted.
C6_Witness ==
    /\ IsCreateReq(req)
    /\ res.status = 201
    /\ GoneIds(questions) # {}
    /\ res.body[1].id \notin GoneIds(questions)

\* C7: a create request whose text or category is missing or empty is
\* answered 400 and leaves the store and the next-id counter unchanged.
C7_InvalidCreateRejected ==
    [][ (IsCreateReq(req') /\ (Falsy(req'.body, "text") \/ Falsy(req'.body, "category")))
        => /\ res'.status = 400
           /\ res'.kind = "message"
           /\ questions' = questions
           /\ nextId' = nextId
      ]_vars

\* C7 witness: a create that carries a text but no category, rejected while a
\* question is stored.
C7_Witness ==
    /\ IsCreateReq(req)
    /\ req.body.has = {"text"}
    /\ res.status = 400
    /\ Len(questions) = 1
    /\ nextId = 2

\* C8: once a question is deleted it is in no list and never stored again,
\* and every later update or delete addressed to its id is answered 404.
C8_DeletedStaysGone ==
    [][ LET gone == GoneIds(questions)
        IN  /\ IdsOf(questions') \cap gone = {}
            /\ (IsDeleteReq(req') /\ res'.status = 204)
               => TargetId(req') \notin IdsOf(questions')
            /\ IsListReq(req')
               => \A q \in Range(res'.body) : q.id \notin gone
            /\ ((IsUpdateReq(req') \/ IsDeleteReq(req')) /\ TargetId(req') \in gone)
               => res'.status = 404
      ]_vars

\* C8 witness: an update addressed to a deleted id, answered 404 while another
\* question is stored.
C8_Witness ==
    /\ IsUpdateReq(req)
    /\ TargetId(req) \in GoneIds(questions)
    /\ res.status = 404
    /\ Len(questions) = 1

\* C9: delete of a stored id removes that record only, every other question
\* keeping all its fields (order included) and its place; delete of an absent
\* id is answered 404 and changes nothing.
C9_DeleteFrame ==
    [][ IsDeleteReq(req')
        => IF Stored(questions, TargetId(req')) # {}
           THEN /\ res'.status = 204
                /\ Len(questions') = Len(questions) - 1
                /\ Stored(questions', TargetId(req')) = {}
                /\ \A i \in 1..Len(questions) :
                      questions[i].id # TargetId(req')
                      => \E k \in {i - 1, i} :
                            k \in 1..Len(questions') /\ questions'[k] = questions[i]
           ELSE /\ res'.status = 404
                /\ questions' = questions
                /\ nextId' = nextId
      ]_vars

\* C9 witness: a delete that left behind a question whose order is 2.
C9_Witness ==
    /\ IsDeleteReq(req)
    /\ res.status = 204
    /\ Len(questions) = 1
    /\ questions[1].order = 2

\* C10: update of a stored question changes only those of text, category and
\* applicableFor that the body supplies; its id and order, its unsupplied
\* fields and every other question stay as they were, also when the body
\* carries id or order.
C10_UpdateFrame ==
    [][ (IsUpdateReq(req') /\ Stored(questions, TargetId(req')) # {})
        => /\ res'.status = 200
           /\ Len(questions') = Len(questions)
           /\ \A i \in 1..Len(questions) :
                 LET old == questions[i]
                     new == questions'[i]
                 IN  IF old.id # TargetId(req')
                     THEN new = old
                     ELSE /\ new.id = old.id
                          /\ new.order = old.order
                          /\ ~Supplied(req'.body, "text") => new.text = old.text
                          /\ ~Supplied(req'.body, "category") => new.category = old.category
                          /\ ~Supplied(req'.body, "applicableFor")
                             => new.applicableFor = old.applicableFor
      ]_vars

\* C10 witness: an answered update whose body carried an id and an order that
\* differ from those of the question it addressed.
C10_Witness ==
    /\ IsUpdateReq(req)
    /\ res.status = 200
    /\ {"id", "order"} \subseteq req.body.has
    /\ req.body.id # res.body[1].id
    /\ req.body.order # res.body[1].order
    /\ Len(questions) = 2

\* C11: an update addressed to an id that no stored question has is answered
\* 404 and leaves the store unchanged.
C11_UpdateUnknownId ==
    [][ (IsUpdateReq(req') /\ Stored(questions, TargetId(req')) = {})
        => /\ res'.status = 404
           /\ res'.kind = "message"
           /\ questions' = questions
           /\ nextId' = nextId
      ]_vars

\* C11 witness: an update that supplies a text, addressed to an id that was
\* never handed out, answered 404 while a question is stored.
C11_Witness ==
    /\ IsUpdateReq(req)
    /\ TargetId(req) \notin everIds
    /\ TargetId(req) # NaN
    /\ Supplied(req.body, "text")
    /\ res.status = 404
    /\ Len(questions) = 1

\* C12: every stored question has a non-empty text and a non-empty category.
C12_TextAndCategoryNonEmpty ==
    \A q \in Range(questions) : q.text # "" /\ q.category # ""

\* C13: a list request is answered 200 with all stored questions in ascending
\* order of `order`, and leaves the stored array and the counter as they were.
C13_ListSortedNoSideEffect ==
    [][ IsListReq(req')
        => /\ res'.status = 200
           /\ res'.kind = "array"
           /\ Len(res'.body) = Len(questions)
           /\ \A q \in Range(questions) :
                 Cardinality({i \in 1..Len(res'.body) : res'.body[i] = q})
                 = Cardinality({i \in 1..Len(questions) : questions[i] = q})
           /\ \A i, j \in 1..Len(res'.body) :
                 i < j => res'.body[i].order <= res'.body[j].order
           /\ questions' = questions
           /\ nextId' = nextId
      ]_vars

\* C13 witness: a list of two questions with different orders.
C13_Witness ==
    /\ IsListReq(req)
    /\ res.status = 200
    /\ Len(res.body) = 2
    /\ res.body[1].order < res.body[2].order

\* the raw items of a payload
ItemsOf(p) == IF p.shape \in {"array", "wrapper"} THEN p.items ELSE <<>>

\* the canonical fields of a normalized question
Canonical(q) ==
    [id |-> q.id, text |-> q.text, order |-> q.order, category |-> q.category,
     applicableFor |-> q.applicableFor]

\* C15: for every payload the normalizer returns a list, one question per raw
\* item, without raising.
C15_NormalizerTotal ==
    normalizedOnce.done
    => /\ ~normalizedOnce.threw
       /\ Len(normalizedOnce.list) = Len(ItemsOf(rawPayload))

\* C16: normalizing the normalized list again gives the same sequence with
\* the same id, text, order, category and applicableFor.
C16_NormalizerIdempotent ==
    normalizedTwice.done
    => /\ ~normalizedTwice.threw
       /\ Len(normalizedTwice.list) = Len(normalizedOnce.list)
       /\ \A i \in 1..Len(normalizedOnce.list) :
             Canonical(normalizedTwice.list[i]) = Canonical(normalizedOnce.list[i])

HasNoGenderField(item) ==
    item.kind = "object" /\ IsNullish(item.applicableFor) /\ IsNullish(item.applicable_for)

\* C17: every normalized question has a non-empty applicableFor without
\* duplicates whose entries are among the four tags; when no raw item has a
\* gender field, every normalized question has exactly ["All Genders"].
C17_ApplicableForWellFormed ==
    (normalizedOnce.done /\ ~normalizedOnce.threw)
    => /\ \A q \in Range(normalizedOnce.list) :
             LET tags == q.applicableFor.a
             IN  /\ q.applicableFor.t = "array"
                 /\ Len(tags) >= 1
                 /\ \A i, j \in 1..Len(tags) : i # j => tags[i] # tags[j]
                 /\ \A i \in 1..Len(tags) :
                       tags[i] \in {Str(Male), Str(Female), Str(NonBinary), Str(AllGenders)}
       /\ (\A i \in 1..Len(ItemsOf(rawPayload)) : HasNoGenderField(ItemsOf(rawPayload)[i]))
          => \A q \in Range(normalizedOnce.list) :
                q.applicableFor = Arr(<<Str(AllGenders)>>)

\* C17 witness: an item whose gender array repeats a tag, normalized together
\* with an item that has no gender field.
C17_Witness ==
    /\ normalizedOnce.done
    /\ rawPayload.items = <<ItemDupGender, ItemQidOnly>>
    /\ \E q \in Range(normalizedOnce.list) :
          q.applicableFor = Arr(<<Str(Male), Str(AllGenders)>>)
    /\ \E q \in Range(normalizedOnce.list) :
          q.applicableFor = Arr(<<Str(AllGenders)>>)

\* the tag the gender rule of the specification assigns to a value
ExpectedGender(v) ==
    LET str   == IF IsNullish(v) THEN <<>> ELSE Trim(ToStr(v))
        lower == ToLowerCase(str)
    IN  IF str \in {Male, Female, NonBinary, AllGenders} THEN str
        ELSE IF Includes(lower, <<"f", "e", "m", "a", "l", "e">>) THEN Female
        ELSE IF Includes(lower, <<"m", "a", "l", "e">>) THEN Male
        ELSE IF Includes(lower, <<"n", "o", "n">>) THEN NonBinary
        ELSE IF Includes(lower, <<"a", "l", "l">>) THEN AllGenders
        ELSE AllGenders

\* C18: gender normalization maps each canonical tag to itself, a value
\* containing "female" to Female, one containing "male" but not "female" to
\* Male, one containing "non" to Non-binary, one containing "all" to All
\* Genders, and every empty or unrecognised value to All Genders.
C18_GenderMapping ==
    genderOut # <<>> => genderOut = ExpectedGender(genderIn)

\* a precedes or equals b in the lexicographic order of their characters
LexLeq(a, b) ==
    \/ a = b
    \/ \E k \in 1..Len(b) :
          /\ k <= Len(a) + 1
          /\ SubSeq(a, 1, k - 1) = SubSeq(b, 1, k - 1)
          /\ (k = Len(a) + 1 \/ CharCode(a[k]) < CharCode(b[k]))

\* C19: the normalized sequence is in ascending order of `order`, and items
\* of equal order stand in lexicographic order of their ids.
C19_NormalizedSorted ==
    (normalizedOnce.done /\ ~normalizedOnce.threw)
    => \A i, j \in 1..Len(normalizedOnce.list) :
          i < j
          => LET a == normalizedOnce.list[i]
                 b == normalizedOnce.list[j]
             IN  \/ a.order.n < b.order.n
                 \/ a.order.n = b.order.n /\ LexLeq(a.id.s, b.id.s)

\* C19 witness: two items of order 2 arrive as id 4, id "10" and leave as
\* "10", "4".
C19_Witness ==
    /\ normalizedOnce.done
    /\ rawPayload.items = <<ItemPlain, ItemTen>>
    /\ Len(normalizedOnce.list) = 2
    /\ normalizedOnce.list[1].id = Str(<<"1", "0">>)
    /\ normalizedOnce.list[2].id = Str(<<"4">>)
    /\ normalizedOnce.list[1].order = normalizedOnce.list[2].order

----------------------------------------------------------------------------
(* Claims about the reorder reconciler *)

\* the request did not succeed: the fetch rejected, the body could not be
\* read, or the status is not 2xx
FailedResponse(r) == r.transport # "ok" \/ r.status \notin 200..299

\* C14: when a reorder commit fails (a non-2xx response or a transport
\* error), the visible list afterwards is the snapshot taken before the drop,
\* not the optimistic list, and an error message is set.
C14_RollbackOnFailure ==
    [][(event'.handler = "reorderSettled" /\ FailedResponse(event'.response))
          => /\ uiQuestions' = event'.commit.previousState
             /\ [i \in 1..Len(uiQuestions') |-> uiQuestions'[i].id.s]
                   # event'.commit.sentIds
             /\ error' # NoMessage]_vars

\* a commit was answered with status 500 while the optimistic list was shown,
\* and the list shown now is the snapshot
C14_Witness ==
    /\ event.handler = "reorderSettled"
    /\ event.response.transport = "ok"
    /\ event.response.status = 500
    /\ uiQuestions = event.commit.previousState
    /\ [i \in 1..Len(uiQuestions) |-> uiQuestions[i].id.s] # event.commit.sentIds
    /\ error # NoMessage

\* the list `old` with the item at index `from` taken out and put back at
\* index `to`, every item carrying its index as order
Reinserted(old, from, to) ==
    [i \in 1..Len(old) |->
        LET src == IF i = to THEN from
                   ELSE IF from < to /\ i >= from /\ i < to THEN i + 1
                   ELSE IF to < from /\ i > to /\ i <= from THEN i - 1
                   ELSE i
        IN  [old[src] EXCEPT !.order = Num(i)]]

\* C20: a drop over a target id other than the dragged id, both in the
\* visible list, leaves as visible list the old one with the dragged item
\* taken out and put back at the target's index, orders 1..N, a permutation of
\* the old ids, and a request is only in flight once that list is shown.
C20_DropReinserts ==
    [][(/\ event'.handler = "handleDrop"
        /\ draggedId # Null
        /\ draggedId.s # event'.id
        /\ draggedId.s \in VisibleIds
        /\ event'.id \in VisibleIds)
          => LET from == findIndexById(uiQuestions, draggedId.s)
                 to   == findIndexById(uiQuestions, event'.id)
             IN  /\ uiQuestions' = Reinserted(uiQuestions, from, to)
                 /\ \A i \in 1..Len(uiQuestions') : uiQuestions'[i].order = Num(i)
                 /\ Len(uiQuestions') = Len(uiQuestions)
                 /\ {uiQuestions'[i].id : i \in 1..Len(uiQuestions')}
                       = {uiQuestions[i].id : i \in 1..Len(uiQuestions)}
                 /\ \A c \in inFlight' \ inFlight :
                       c.sentIds = [i \in 1..Len(uiQuestions') |-> uiQuestions'[i].id.s]]_vars

\* the step is a drop of the dragged item on another item, both in the
\* visible list
DropOnOther ==
    /\ event'.handler = "handleDrop"
    /\ draggedId # Null
    /\ draggedId.s # event'.id
    /\ draggedId.s \in VisibleIds
    /\ event'.id \in VisibleIds

\* C21: every drop on a different target id sends the new id sequence to the
\* reorder operation, whatever ids the visible list holds.
C21_DropSubmits ==
    [][DropOnOther
          => \E c \in inFlight' \ inFlight :
                /\ Len(c.sentIds) = Len(uiQuestions)
                /\ {c.sentIds[i] : i \in 1..Len(c.sentIds)} = VisibleIds]_vars

\* the step is the settling of a reorder request with a 2xx status and a body
\* that is JSON
SettledOk ==
    /\ event'.handler = "reorderSettled"
    /\ event'.response.transport = "ok"
    /\ event'.response.status \in 200..299
    /\ event'.response.parses

IdSeq(qs) == [i \in 1..Len(qs) |-> qs[i].id.s]

\* C22 as stated: after a successful commit the visible list is the normalized
\* server response whenever the response is an array or has an array
\* questions property, an empty one included; otherwise the list is kept.
C22_ServerListReplaces ==
    [][SettledOk
          => IF event'.response.body \in {"questions", "emptyArray"}
             THEN uiQuestions' =
                     normalizeArray(ResponseData(event'.commit, event'.response)).list
             ELSE event'.response.body = "object" => uiQuestions' = uiQuestions]_vars

\* C22 as amended: the visible list is replaced by the normalized server
\* response when that list is not empty (then it shows the ids in the order
\* sent, with orders 1..N); an empty array and a response without a
\* collection leave the visible list as it is.
C22_NonEmptyServerListReplaces ==
    [][SettledOk
          => /\ event'.response.body = "questions"
                => /\ uiQuestions' =
                         normalizeArray(ResponseData(event'.commit, event'.response)).list
                   /\ IdSeq(uiQuestions') = event'.commit.sentIds
                   /\ \A i \in 1..Len(uiQuestions') : uiQuestions'[i].order = Num(i)
             /\ event'.response.body \in {"emptyArray", "object"}
                => uiQuestions' = uiQuestions]_vars

\* a commit succeeded with the questions in its body while a later drop had
\* changed the visible list, and the list shown is the server's
C22_Witness ==
    /\ event.handler = "reorderSettled"
    /\ event.response.status = 200
    /\ event.response.body = "questions"
    /\ IdSeq(uiQuestions) = event.commit.sentIds
    /\ \E c \in inFlight : c.cid > event.commit.cid /\ c.sentIds # IdSeq(uiQuestions)
    /\ successMessage # NoMessage

\* C23: a drop on the dragged item itself, or with no item dragged, clears
\* draggedId, leaves the visible list, the saving flag and the error as they
\* are and sends no reorder request.
C23_SelfDropIgnored ==
    [][(/\ event'.handler = "handleDrop"
        /\ (draggedId = Null \/ draggedId = Str(event'.id)))
          => /\ draggedId' = Null
             /\ dragOverId' = Null
             /\ uiQuestions' = uiQuestions
             /\ savingReorder' = savingReorder
             /\ error' = error
             /\ inFlight' = inFlight
             /\ commits' = commits]_vars

\* the item "4" of the full list was dropped on itself and nothing was sent
C23_Witness ==
    /\ event.handler = "handleDrop"
    /\ event.dragged = Str(event.id)
    /\ event.id = NumToStr(4)
    /\ ExpectedIds \subseteq VisibleIds
    /\ draggedId = Null
    /\ inFlight = {}
    /\ commits = 0

\* C24: at most one reorder commit is in flight at any time; a second drop
\* starts no submission while an earlier one awaits its response
C24_OneCommitInFlight == Cardinality(inFlight) <= 1

\* C26: a question whose delete request succeeded is never again in the
\* visible list, also not after the rollback of a reorder commit that was in
\* flight during the delete
C26_DeletedStaysDeleted == VisibleIds \cap deletedIds = {}

\* C27: savingReorder is true in every state in which a reorder commit is in
\* flight; it does not turn false while another commit awaits its response
C27_SavingWhileInFlight == inFlight # {} => savingReorder

\* the settling handleDrop call put the snapshot of its commit back in place
\* of the list that was shown
RolledBack ==
    /\ event'.handler = "reorderSettled"
    /\ uiQuestions' # uiQuestions
    /\ uiQuestions' = event'.commit.previousState

\* C28: the list is rolled back to the snapshot only when the server did not
\* apply the reorder; a 2xx response is never followed by a rollback, whatever
\* its body
C28_NoRollbackOn2xx ==
    [][(/\ event'.handler = "reorderSettled"
        /\ event'.response.transport = "ok"
        /\ event'.response.status \in 200..299) => ~RolledBack]_vars

\* C29: a reorder request never adds or removes a question and changes no
\* field other than order: whatever orderedIds holds (unknown ids, duplicates,
\* nothing), the stored ids and every question's text, category and
\* applicableFor are afterwards what they were before.
C29_ReorderFrame ==
    [][IsReorderReq(req')
         => /\ Len(questions') = Len(questions)
            /\ IdsOf(questions') = IdsOf(questions)
            /\ \A q \in Range(questions) :
                  \E p \in Range(questions') :
                     /\ p.id = q.id
                     /\ p.text = q.text
                     /\ p.category = q.category
                     /\ p.applicableFor = q.applicableFor]_vars

\* a reorder answered 200 whose orderedIds names an unknown id and then the
\* one stored question, which now carries the order 2
C29_Witness ==
    /\ IsReorderReq(req)
    /\ res.status = 200
    /\ Len(questions) = 1
    /\ Len(req.body.orderedIds) = 2
    /\ req.body.orderedIds[1] \notin IdsOf(questions)
    /\ req.body.orderedIds[2] = questions[1].id
    /\ questions[1].order = 2

\* C30 as stated: once the request of a reorder commit resolves, with a
\* response or a transport error, draggedId is null and savingReorder is false.
C30_SettledIdle ==
    [][event'.handler = "reorderSettled"
         => draggedId' = Null /\ savingReorder' = FALSE]_vars

\* C30, amended: once the request of a reorder commit resolves, with a
\* response or a transport error, the commit is no longer in flight and
\* savingReorder is false, on the success path and on every failure path;
\* draggedId is left as it is, which is null unless a new drag was started
\* while the commit was pending.
C30_SettledEndsCommit ==
    [][event'.handler = "reorderSettled"
         => /\ event'.commit \in inFlight
            /\ event'.commit \notin inFlight'
            /\ savingReorder' = FALSE
            /\ draggedId' = draggedId]_vars

\* a commit ended with a network error while the drag of a new gesture was
\* under way: no commit is in flight, savingReorder is false and draggedId is
\* the id of the new gesture
C30_Witness ==
    /\ event.handler = "reorderSettled"
    /\ event.response.transport = "networkError"
    /\ event.commit.cid = 1
    /\ inFlight = {}
    /\ ~savingReorder
    /\ draggedId = Str(NumToStr(28))

====
